---- MODULE Spec2Model ----
(***************************************************************************)
(* Model of the IPO short-term trading analyzer (src/ipo_analyzer.py) and  *)
(* of its HTTP front end (src/web_app.py).                                 *)
(*                                                                         *)
(* Percentages are Python floats in the source.  Here a percentage is an   *)
(* integer number of hundredths of a percentage point (Pct(8, 50) = 8.5%). *)
(* The candidate grids below only use multiples of 0.25, which are exact   *)
(* as IEEE doubles, so every comparison and the subtraction in             *)
(* get_sell_timing give the same result as the float arithmetic            *)
(* of the source.  Prices are Python ints (won).                           *)
(***************************************************************************)
EXTENDS Integers, Sequences, FiniteSets, TLC

VARIABLES
    stocks,          \* IPOAnalyzer.stocks: the candidate list of the analyzer
    evaluation,      \* <<>> or <<e>>: value returned by the last evaluate_suitability
    timings,         \* timings[i]: <<>> or <<t>>, value returned by get_sell_timing(stocks[i])
    selected,        \* <<>> or <<l>>: value returned by the last select_suitable_stocks
    request,         \* the HTTP request in flight for /api/analyze (<<>>: none)
    response,        \* <<>> or <<r>>: the HTTP response of /api/analyze
    engine_calls,    \* the calls the /api/analyze handler made into the engine, in order
    logged,          \* what the handler wrote to app.logger
    report           \* <<>> or <<r>>: the report of the last generate_report, with the
                     \* calls that run made into the engine

vars == <<stocks, evaluation, timings, selected, request, response, engine_calls, logged,
         report>>

(***************************************************************************)
(* Data                                                                    *)
(***************************************************************************)

\* a float percentage: units + hundredths/100
Pct(units, hundredths) == 100 * units + hundredths

SUITABLE == "SUITABLE"
UNSUITABLE == "UNSUITABLE"

MIN_MANDATORY_HOLDING == Pct(10, 0)
MAX_AVAILABLE_FLOAT == Pct(35, 0)
MIN_SECTOR_RETURN == Pct(5, 0)
TARGET_MIN_RETURN == Pct(5, 0)
TARGET_MAX_RETURN == Pct(30, 0)

\* IPOStock without strengths and weaknesses, two lists of text that are only
\* passed through to the report and the response
IPOStock(name, listing_date, ipo, bmin, bmax, mh, af, sector, sar, er) ==
    [name |-> name, listing_date |-> listing_date,
     ipo_price |-> ipo, price_band_min |-> bmin,
     price_band_max |-> bmax, mandatory_holding_pct |-> mh,
     available_float_pct |-> af, sector |-> sector,
     sector_avg_return_pct |-> sar, expected_return_pct |-> er]

(***************************************************************************)
(* evaluate_suitability                                                    *)
(***************************************************************************)

Rule1Fires(stock) == stock.mandatory_holding_pct < MIN_MANDATORY_HOLDING

Rule2Fires_inclusive(stock) == stock.available_float_pct >= MAX_AVAILABLE_FLOAT

Rule2Fires(stock) == stock.available_float_pct > MAX_AVAILABLE_FLOAT

Rule3Fires(stock) == stock.ipo_price > stock.price_band_max

Rule4Fires(stock) == stock.sector_avg_return_pct < MIN_SECTOR_RETURN

\* the f-strings of the reasons: the template and the values it interpolates
Reason1(stock) == <<"holding_below_min", stock.mandatory_holding_pct, MIN_MANDATORY_HOLDING>>
Reason2(stock) == <<"float_above_max", stock.available_float_pct, MAX_AVAILABLE_FLOAT>>
Reason3(stock) == <<"price_above_band_max", stock.ipo_price, stock.price_band_max>>
Reason4(stock) == <<"sector_return_below_min", stock.sector, stock.sector_avg_return_pct, MIN_SECTOR_RETURN>>

\* one `if rule: status = UNSUITABLE; reasons.append(reason)`
Check(state, fires, reason) ==
    IF fires
    THEN [status |-> UNSUITABLE, reasons |-> Append(state.reasons, reason)]
    ELSE state

\* the first violated rule only, as an if/elif chain would give
ThresholdChecks_shortcircuit(stock) ==
    IF Rule1Fires(stock) THEN [status |-> UNSUITABLE, reasons |-> <<Reason1(stock)>>]
    ELSE IF Rule2Fires(stock) THEN [status |-> UNSUITABLE, reasons |-> <<Reason2(stock)>>]
    ELSE IF Rule3Fires(stock) THEN [status |-> UNSUITABLE, reasons |-> <<Reason3(stock)>>]
    ELSE IF Rule4Fires(stock) THEN [status |-> UNSUITABLE, reasons |-> <<Reason4(stock)>>]
    ELSE [status |-> SUITABLE, reasons |-> <<>>]

\* the four independent ifs, in order: status and reasons after rule 4
ThresholdChecks(stock) ==
    Check(Check(Check(Check([status |-> SUITABLE, reasons |-> <<>>],
                            Rule1Fires(stock), Reason1(stock)),
                      Rule2Fires(stock), Reason2(stock)),
                Rule3Fires(stock), Reason3(stock)),
          Rule4Fires(stock), Reason4(stock))

PositiveReasons_none(stock) == <<>>

\* the four positive restatements appended for a suitable stock
PositiveReasons(stock) ==
    << <<"holding_good", stock.mandatory_holding_pct>>,
       <<"float_fine", stock.available_float_pct>>,
       <<"sector_return_fine", stock.sector_avg_return_pct>>,
       <<"expected_return", stock.expected_return_pct, TARGET_MIN_RETURN, TARGET_MAX_RETURN>> >>

FloatWarns_collapsed(stock) == stock.available_float_pct > MAX_AVAILABLE_FLOAT

FloatWarns(stock) == stock.available_float_pct > Pct(30, 0)

\* ipo_price > (price_band_min + price_band_max) / 2, a true division: the
\* midpoint may be a half, so the comparison is made on the doubled values
BandWarns(stock) == 2 * stock.ipo_price > stock.price_band_min + stock.price_band_max

ReturnWarns(stock) == stock.expected_return_pct > Pct(20, 0)

FloatWarning(stock) == <<"float_somewhat_high", stock.available_float_pct>>
BandWarning(stock) == <<"price_near_band_top">>
ReturnWarning(stock) == <<"expected_return_high", stock.expected_return_pct>>

\* one `if condition: warnings.append(warning)`
Warn(warnings, condition, warning) ==
    IF condition THEN Append(warnings, warning) ELSE warnings

\* the three independent ifs that append the warnings
Warnings(stock) ==
    Warn(Warn(Warn(<<>>, FloatWarns(stock), FloatWarning(stock)),
              BandWarns(stock), BandWarning(stock)),
         ReturnWarns(stock), ReturnWarning(stock))

SuitableBlock_unguarded(stock, checks) ==
    [stock |-> stock,
     status |-> checks.status,
     reasons |-> IF checks.status = SUITABLE
                 THEN checks.reasons \o PositiveReasons(stock)
                 ELSE checks.reasons,
     warnings |-> Warnings(stock)]

\* the block under `if status == SuitabilityStatus.SUITABLE`, and the
\* SuitabilityEvaluation returned
SuitableBlock(stock, checks) ==
    IF checks.status = SUITABLE
    THEN [stock |-> stock, status |-> checks.status,
          reasons |-> checks.reasons \o PositiveReasons(stock),
          warnings |-> Warnings(stock)]
    ELSE [stock |-> stock, status |-> checks.status,
          reasons |-> checks.reasons, warnings |-> <<>>]

evaluate_suitability(stock) == SuitableBlock(stock, ThresholdChecks(stock))

(***************************************************************************)
(* get_sell_timing                                                         *)
(***************************************************************************)

SupplyStrength2_inverted(stock) == stock.available_float_pct - 2 * stock.mandatory_holding_pct

\* twice supply_strength = mandatory_holding_pct - available_float_pct / 2
\* (doubled so that the half stays an integer)
SupplyStrength2(stock) == 2 * stock.mandatory_holding_pct - stock.available_float_pct

StrongSupply_inclusive(stock) == SupplyStrength2(stock) >= 2 * Pct(15, 0)

\* supply_strength > 15
StrongSupply(stock) == SupplyStrength2(stock) > 2 * Pct(15, 0)

\* supply_strength > 5
MiddleSupply(stock) == SupplyStrength2(stock) > 2 * Pct(5, 0)

get_sell_timing(stock) ==
    IF StrongSupply(stock)
    THEN [stock_name |-> stock.name,
          dangerous_period |-> "14:30~15:20",
          safe_period |-> "09:30~10:30",
          reason |-> <<"strong_supply", stock.mandatory_holding_pct,
                       stock.available_float_pct, stock.expected_return_pct>>]
    ELSE IF MiddleSupply(stock)
    THEN [stock_name |-> stock.name,
          dangerous_period |-> "10:30~11:00, 14:00~15:20",
          safe_period |-> "09:15~09:45",
          reason |-> <<"middle_supply", stock.expected_return_pct>>]
    ELSE [stock_name |-> stock.name,
          dangerous_period |-> "09:30~",
          safe_period |-> "09:00~09:20",
          reason |-> <<"weak_supply", stock.expected_return_pct>>]

(***************************************************************************)
(* select_suitable_stocks                                                  *)
(***************************************************************************)

\* the loop of select_suitable_stocks: the stocks evaluated SUITABLE, in list order
RECURSIVE SuitableOf(_)
SuitableOf(list) ==
    IF list = <<>> THEN <<>>
    ELSE LET rest == SuitableOf(Tail(list))
         IN  IF evaluate_suitability(Head(list)).status = SUITABLE
             THEN <<Head(list)>> \o rest
             ELSE rest

\* a descending insertion that puts x before the elements of equal key
RECURSIVE InsertDescending_beforeTies(_, _)
InsertDescending_beforeTies(sorted, x) ==
    IF sorted = <<>> THEN <<x>>
    ELSE IF Head(sorted).expected_return_pct > x.expected_return_pct
         THEN <<Head(sorted)>> \o InsertDescending_beforeTies(Tail(sorted), x)
         ELSE <<x>> \o sorted

\* x placed after every element whose key is >= its own
RECURSIVE InsertDescending(_, _)
InsertDescending(sorted, x) ==
    IF sorted = <<>> THEN <<x>>
    ELSE IF Head(sorted).expected_return_pct >= x.expected_return_pct
         THEN <<Head(sorted)>> \o InsertDescending(Tail(sorted), x)
         ELSE <<x>> \o sorted

RECURSIVE InsertAscending(_, _)
InsertAscending(sorted, x) ==
    IF sorted = <<>> THEN <<x>>
    ELSE IF Head(sorted).expected_return_pct <= x.expected_return_pct
         THEN <<Head(sorted)>> \o InsertAscending(Tail(sorted), x)
         ELSE <<x>> \o sorted

RECURSIVE SortedAscending(_)
SortedAscending(list) ==
    IF list = <<>> THEN <<>>
    ELSE InsertAscending(SortedAscending(SubSeq(list, 1, Len(list) - 1)), list[Len(list)])

\* sorted(list, key=lambda s: s.expected_return_pct, reverse=True): Python's sort
\* is stable, and with reverse=True elements of equal key keep their order
RECURSIVE SortedByReturnDescending(_)
SortedByReturnDescending(list) ==
    IF list = <<>> THEN <<>>
    ELSE InsertDescending(SortedByReturnDescending(SubSeq(list, 1, Len(list) - 1)),
                          list[Len(list)])

select_suitable_stocks(list) == SortedByReturnDescending(SuitableOf(list))

(***************************************************************************)
(* The analyzers checked: the candidate lists an IPOAnalyzer is built on.  *)
(***************************************************************************)

MaxStocks == 3

Holdings == {Pct(8, 50), Pct(9, 75), Pct(10, 0), Pct(20, 0), Pct(20, 25),
             Pct(22, 0), Pct(30, 0), Pct(30, 25)}
Floats == {Pct(18, 50), Pct(30, 0), Pct(30, 25), Pct(35, 0), Pct(35, 25), Pct(42, 0)}
SectorReturns == {Pct(4, 75), Pct(5, 0), Pct(6, 50)}
ExpectedReturns == {Pct(8, 0), Pct(20, 0), Pct(20, 25)}
IpoPrices == {17500, 18000, 20000, 20001}
BandMins == {15000, 17000}
BandMax == 20000

\* every combination of the values around the thresholds
Candidates ==
    {IPOStock("A", "2026-01-22", ipo, bmin, BandMax, mh, af, "bio", sar, er) :
        ipo \in IpoPrices, bmin \in BandMins, mh \in Holdings, af \in Floats,
        sar \in SectorReturns, er \in ExpectedReturns}

\* candidates that differ in holding and float only
PairCandidates ==
    {IPOStock("A", "2026-01-22", 18000, 15000, BandMax, mh, af, "bio", Pct(6, 50), Pct(20, 0)) :
        mh \in Holdings, af \in Floats}

\* named candidates for the lists: ties in expected return, an unsuitable
\* one, and the three timing tiers at one float
ListCandidates ==
    {IPOStock("A", "2026-01-22", 18000, 15000, BandMax, Pct(22, 0), Pct(18, 50), "bio", Pct(15, 25), Pct(25, 0)),
     IPOStock("B", "2026-01-15", 18000, 15000, BandMax, Pct(30, 25), Pct(30, 0), "bio", Pct(15, 25), Pct(25, 0)),
     IPOStock("C", "2026-02-05", 20000, 15000, BandMax, Pct(8, 50), Pct(42, 0), "energy", Pct(6, 50), Pct(8, 0)),
     IPOStock("D", "2026-02-19", 17500, 15000, BandMax, Pct(12, 50), Pct(32, 0), "mobility", Pct(9, 50), Pct(12, 0)),
     IPOStock("E", "2026-02-12", 17500, 15000, BandMax, Pct(30, 0), Pct(30, 0), "chips", Pct(12, 75), Pct(12, 0)),
     IPOStock("F", "2026-02-26", 20001, 15000, BandMax, Pct(20, 0), Pct(30, 0), "robot", Pct(5, 0), Pct(30, 0))}

RECURSIVE ListsUpTo(_, _)
ListsUpTo(S, n) ==
    IF n = 0 THEN {<<>>}
    ELSE LET shorter == ListsUpTo(S, n - 1)
         IN  shorter \cup {Append(l, x) : l \in shorter, x \in S}

AnalyzerLists ==
    {<<c>> : c \in Candidates}
    \cup {<<c, d>> : c \in PairCandidates, d \in PairCandidates}
    \cup ListsUpTo(ListCandidates, MaxStocks)

(***************************************************************************)
(* The engine: an IPOAnalyzer and the calls made on it                     *)
(***************************************************************************)

\* IPOAnalyzer.__init__
Init ==
    /\ stocks \in AnalyzerLists
    /\ evaluation = <<>>
    /\ timings = [i \in 1..Len(stocks) |-> <<>>]
    /\ selected = <<>>
    /\ request = <<>>
    /\ response = <<>>
    /\ engine_calls = <<>>
    /\ logged = <<>>
    /\ report = <<>>

\* analyzer.evaluate_suitability(analyzer.stocks[i])
EvaluateSuitability(i) ==
    /\ evaluation' = <<evaluate_suitability(stocks[i])>>
    /\ UNCHANGED <<stocks, timings, selected, request, response, engine_calls, logged, report>>

\* analyzer.get_sell_timing(analyzer.stocks[i])
GetSellTiming(i) ==
    /\ timings' = [timings EXCEPT ![i] = <<get_sell_timing(stocks[i])>>]
    /\ UNCHANGED <<stocks, evaluation, selected, request, response, engine_calls, logged, report>>

\* analyzer.select_suitable_stocks()
SelectSuitableStocks ==
    /\ selected' = <<select_suitable_stocks(stocks)>>
    /\ UNCHANGED <<stocks, evaluation, timings, request, response, engine_calls, logged, report>>

Next ==
    \/ \E i \in 1..Len(stocks) : EvaluateSuitability(i)
    \/ \E i \in 1..Len(stocks) : GetSellTiming(i)
    \/ SelectSuitableStocks

Spec == Init /\ [][Next]_vars

(***************************************************************************)
(* Properties of evaluate_suitability                                      *)
(***************************************************************************)

\* the four rules as the specification states them
AnyRuleViolated(s) ==
    \/ s.mandatory_holding_pct < Pct(10, 0)
    \/ s.available_float_pct > Pct(35, 0)
    \/ s.ipo_price > s.price_band_max
    \/ s.sector_avg_return_pct < Pct(5, 0)

\* C1: the status is UNSUITABLE iff at least one of the four strict rules fires
\* and SUITABLE iff none does; price_band_min and expected_return_pct do not
\* influence it.
C1_StatusIffRules ==
    evaluation # <<>> =>
        LET e == evaluation[1]
            s == e.stock
        IN  /\ e.status \in {SUITABLE, UNSUITABLE}
            /\ (e.status = UNSUITABLE) <=> AnyRuleViolated(s)
            /\ (e.status = SUITABLE) <=> ~AnyRuleViolated(s)
            /\ \A bmin \in BandMins, er \in ExpectedReturns :
                   evaluate_suitability([s EXCEPT !.price_band_min = bmin,
                                                  !.expected_return_pct = er]).status
                       = e.status

\* a candidate sitting exactly on all four thresholds was evaluated SUITABLE
C1_Witness ==
    /\ evaluation # <<>>
    /\ evaluation[1].stock.mandatory_holding_pct = Pct(10, 0)
    /\ evaluation[1].stock.available_float_pct = Pct(35, 0)
    /\ evaluation[1].stock.ipo_price = evaluation[1].stock.price_band_max
    /\ evaluation[1].stock.sector_avg_return_pct = Pct(5, 0)
    /\ evaluation[1].status = SUITABLE

\* C2: the reasons list of every evaluation is non-empty, whatever the status.
C2_ReasonsNonEmpty ==
    evaluation # <<>> => Len(evaluation[1].reasons) > 0

C2_Witness ==
    /\ evaluation # <<>>
    /\ evaluation[1].status = SUITABLE
    /\ Len(evaluation[1].reasons) = 4

\* C3: an UNSUITABLE evaluation carries no warning, even when the candidate
\* meets the warning conditions.
C3_NoWarningsWhenUnsuitable ==
    (evaluation # <<>> /\ evaluation[1].status = UNSUITABLE)
        => evaluation[1].warnings = <<>>

\* an unsuitable candidate that meets all three warning conditions
C3_Witness ==
    /\ evaluation # <<>>
    /\ evaluation[1].status = UNSUITABLE
    /\ evaluation[1].stock.available_float_pct > Pct(30, 0)
    /\ 2 * evaluation[1].stock.ipo_price
           > evaluation[1].stock.price_band_min + evaluation[1].stock.price_band_max
    /\ evaluation[1].stock.expected_return_pct > Pct(20, 0)
    /\ evaluation[1].warnings = <<>>

\* one reason per violated rule, in rule order
ViolationReasons(s) ==
    (IF s.mandatory_holding_pct < Pct(10, 0) THEN <<Reason1(s)>> ELSE <<>>)
    \o (IF s.available_float_pct > Pct(35, 0) THEN <<Reason2(s)>> ELSE <<>>)
    \o (IF s.ipo_price > s.price_band_max THEN <<Reason3(s)>> ELSE <<>>)
    \o (IF s.sector_avg_return_pct < Pct(5, 0) THEN <<Reason4(s)>> ELSE <<>>)

NumberViolated(s) ==
    (IF s.mandatory_holding_pct < Pct(10, 0) THEN 1 ELSE 0)
    + (IF s.available_float_pct > Pct(35, 0) THEN 1 ELSE 0)
    + (IF s.ipo_price > s.price_band_max THEN 1 ELSE 0)
    + (IF s.sector_avg_return_pct < Pct(5, 0) THEN 1 ELSE 0)

\* C9: the reasons of an UNSUITABLE evaluation are exactly the reasons of the
\* violated rules, one each, in rule order 1, 2, 3, 4, and nothing else.
C9_OneReasonPerViolatedRule ==
    (evaluation # <<>> /\ evaluation[1].status = UNSUITABLE) =>
        /\ Len(evaluation[1].reasons) = NumberViolated(evaluation[1].stock)
        /\ evaluation[1].reasons = ViolationReasons(evaluation[1].stock)

\* holding 8.5, float 42.0, ipo_price = price_band_max, sector return 6.5:
\* exactly the reasons of rules 1 and 2
C9_Witness ==
    /\ evaluation # <<>>
    /\ evaluation[1].stock.mandatory_holding_pct = Pct(8, 50)
    /\ evaluation[1].stock.available_float_pct = Pct(42, 0)
    /\ evaluation[1].stock.ipo_price = evaluation[1].stock.price_band_max
    /\ evaluation[1].stock.sector_avg_return_pct = Pct(6, 50)
    /\ evaluation[1].status = UNSUITABLE
    /\ Len(evaluation[1].reasons) = 2
    /\ evaluation[1].reasons[1][1] = "holding_below_min"
    /\ evaluation[1].reasons[2][1] = "float_above_max"

\* the warnings the three conditions call for, in the order float, band, return
ExpectedWarnings(s) ==
    (IF s.available_float_pct > Pct(30, 0) THEN <<FloatWarning(s)>> ELSE <<>>)
    \o (IF 2 * s.ipo_price > s.price_band_min + s.price_band_max
        THEN <<BandWarning(s)>> ELSE <<>>)
    \o (IF s.expected_return_pct > Pct(20, 0) THEN <<ReturnWarning(s)>> ELSE <<>>)

\* C10: a SUITABLE evaluation carries each of the three warnings iff its own
\* condition holds, in the order float, band, return.
C10_WarningsIffConditions ==
    (evaluation # <<>> /\ evaluation[1].status = SUITABLE) =>
        evaluation[1].warnings = ExpectedWarnings(evaluation[1].stock)

\* a suitable candidate with float in (30, 35] carries the float warning only
C10_Witness ==
    /\ evaluation # <<>>
    /\ evaluation[1].status = SUITABLE
    /\ evaluation[1].stock.available_float_pct = Pct(35, 0)
    /\ evaluation[1].warnings = <<FloatWarning(evaluation[1].stock)>>

(***************************************************************************)
(* Properties of get_sell_timing                                           *)
(***************************************************************************)

\* the tier a SellTiming recommends, read from its two time windows
TierOf(t) ==
    IF t.safe_period = "09:30~10:30" /\ t.dangerous_period = "14:30~15:20"
        /\ t.reason[1] = "strong_supply" THEN "strong"
    ELSE IF t.safe_period = "09:15~09:45" /\ t.dangerous_period = "10:30~11:00, 14:00~15:20"
        /\ t.reason[1] = "middle_supply" THEN "middle"
    ELSE IF t.safe_period = "09:00~09:20" /\ t.dangerous_period = "09:30~"
        /\ t.reason[1] = "weak_supply" THEN "weak"
    ELSE "none"

TierRank(t) ==
    CASE TierOf(t) = "strong" -> 3
      [] TierOf(t) = "middle" -> 2
      [] TierOf(t) = "weak" -> 1
      [] OTHER -> 0

\* C6: get_sell_timing selects exactly one tier from
\* strength = mandatory_holding_pct - available_float_pct / 2:
\* strong iff strength > 15, middle iff 5 < strength <= 15, weak iff
\* strength <= 5, for suitable and unsuitable candidates alike.
C6_TierByStrength ==
    \A i \in 1..Len(stocks) :
        timings[i] # <<>> =>
            LET t == timings[i][1]
                s == stocks[i]
                \* twice the strength, in hundredths of a point
                twice == 2 * s.mandatory_holding_pct - s.available_float_pct
            IN  /\ TierOf(t) \in {"strong", "middle", "weak"}
                /\ (TierOf(t) = "strong") <=> (twice > 2 * Pct(15, 0))
                /\ (TierOf(t) = "middle") <=>
                       (twice > 2 * Pct(5, 0) /\ twice <= 2 * Pct(15, 0))
                /\ (TierOf(t) = "weak") <=> (twice <= 2 * Pct(5, 0))
                /\ t.stock_name = s.name
                /\ (s.mandatory_holding_pct = Pct(22, 0)
                        /\ s.available_float_pct = Pct(18, 50))
                       => TierOf(t) = "middle"

\* an unsuitable candidate whose strength is exactly 15 got the middle tier
C6_Witness ==
    \E i \in 1..Len(stocks) :
        /\ timings[i] # <<>>
        /\ 2 * stocks[i].mandatory_holding_pct - stocks[i].available_float_pct
               = 2 * Pct(15, 0)
        /\ evaluate_suitability(stocks[i]).status = UNSUITABLE
        /\ TierOf(timings[i][1]) = "middle"

\* C7: of two candidates with the same available_float_pct, the one with the
\* larger mandatory_holding_pct is never placed in a weaker tier.
C7_TierMonotonic ==
    \A i, j \in 1..Len(stocks) :
        (/\ timings[i] # <<>>
         /\ timings[j] # <<>>
         /\ stocks[i].available_float_pct = stocks[j].available_float_pct
         /\ stocks[i].mandatory_holding_pct > stocks[j].mandatory_holding_pct)
            => TierRank(timings[i][1]) >= TierRank(timings[j][1])

\* two candidates of equal float: the larger holding is in the strong tier,
\* the smaller in the weak tier
C7_Witness ==
    \E i, j \in 1..Len(stocks) :
        /\ timings[i] # <<>>
        /\ timings[j] # <<>>
        /\ stocks[i].available_float_pct = stocks[j].available_float_pct
        /\ stocks[i].mandatory_holding_pct > stocks[j].mandatory_holding_pct
        /\ TierOf(timings[i][1]) = "strong"
        /\ TierOf(timings[j][1]) = "weak"

(***************************************************************************)
(* Properties of select_suitable_stocks                                    *)
(***************************************************************************)

Occurrences(list, x) == Cardinality({k \in 1..Len(list) : list[k] = x})

Elements(list) == {list[k] : k \in 1..Len(list)}

\* C4: select_suitable_stocks returns exactly the candidates evaluated
\* SUITABLE, each once per occurrence in the input, with expected_return_pct
\* non-increasing along the output.
C4_SelectedAreSuitableSortedDescending ==
    selected # <<>> =>
        LET out == selected[1]
        IN  /\ \A c \in Elements(stocks) \cup Elements(out) :
                   Occurrences(out, c) =
                       IF evaluate_suitability(c).status = SUITABLE
                       THEN Occurrences(stocks, c)
                       ELSE 0
            /\ \A k \in 1..Len(out) : ~AnyRuleViolated(out[k])
            /\ \A k \in 1..(Len(out) - 1) :
                   out[k].expected_return_pct >= out[k + 1].expected_return_pct

\* an input in ascending order of return with an unsuitable candidate in it
C4_Witness ==
    /\ selected # <<>>
    /\ Len(stocks) = 3
    /\ Len(selected[1]) = 2
    /\ stocks[1].expected_return_pct < stocks[3].expected_return_pct
    /\ evaluate_suitability(stocks[2]).status = UNSUITABLE
    /\ selected[1] = <<stocks[3], stocks[1]>>

\* C5: suitable candidates of equal expected_return_pct keep in the output
\* the relative order they have in the input.
C5_TiesKeepInputOrder ==
    selected # <<>> =>
        \A c \in Elements(stocks) :
            LET SameReturnSuitable(x) ==
                    /\ x.expected_return_pct = c.expected_return_pct
                    /\ ~AnyRuleViolated(x)
            IN  SelectSeq(selected[1], SameReturnSuitable)
                    = SelectSeq(stocks, SameReturnSuitable)

\* two different suitable candidates of equal return, after one of lower
\* return in the input: they lead the output in their input order
C5_Witness ==
    /\ selected # <<>>
    /\ Len(stocks) = 3
    /\ Len(selected[1]) = 3
    /\ stocks[2] # stocks[3]
    /\ stocks[2].expected_return_pct = stocks[3].expected_return_pct
    /\ stocks[1].expected_return_pct < stocks[2].expected_return_pct
    /\ selected[1] = <<stocks[2], stocks[3], stocks[1]>>

(***************************************************************************)
(* The HTTP front end: POST /api/analyze                                    *)
(***************************************************************************)

\* JSON values of a record's fields.  A number is carried in hundredths
\* (v = 1800050 is 18000.5); IntStr is a string holding an integer literal,
\* DecStr a string holding a literal with a decimal point, DateStr a string
\* holding a valid YYYY-MM-DD date, Text any other string; Absent says the
\* key is not in the object.
Num(v) == [k |-> "number", v |-> v, s |-> ""]
IntStr(n) == [k |-> "intstr", v |-> 100 * n, s |-> ""]
DecStr(v) == [k |-> "decstr", v |-> v, s |-> ""]
Text(s) == [k |-> "text", v |-> 0, s |-> s]
DateStr(s) == [k |-> "datestr", v |-> 0, s |-> s]
Null == [k |-> "null", v |-> 0, s |-> ""]
Absent == [k |-> "absent", v |-> 0, s |-> ""]

Converted(v, s) == [ok |-> TRUE, v |-> v, s |-> s, error |-> <<>>]
Raised(exception, field) == [ok |-> FALSE, v |-> 0, s |-> "", error |-> <<exception, field>>]

\* stock_data[field]
Lookup(field, raw) ==
    IF raw.k = "absent" THEN Raised("KeyError", field) ELSE Converted(raw.v, raw.s)

\* int(stock_data[field]): a number is truncated, a string must be an integer literal
ToInt(field, raw) ==
    CASE raw.k = "absent" -> Raised("KeyError", field)
      [] raw.k = "null" -> Raised("TypeError", field)
      [] raw.k \in {"number", "intstr"} -> Converted(raw.v \div 100, "")
      [] OTHER -> Raised("ValueError", field)

\* float(stock_data[field])
ToFloat(field, raw) ==
    CASE raw.k = "absent" -> Raised("KeyError", field)
      [] raw.k = "null" -> Raised("TypeError", field)
      [] raw.k \in {"number", "intstr", "decstr"} -> Converted(raw.v, "")
      [] OTHER -> Raised("ValueError", field)

\* datetime.strptime(stock_data[field], '%Y-%m-%d').date()
ToDate(field, raw) ==
    CASE raw.k = "absent" -> Raised("KeyError", field)
      [] raw.k \in {"null", "number"} -> Raised("TypeError", field)
      [] raw.k = "datestr" -> Converted(0, raw.s)
      [] OTHER -> Raised("ValueError", field)

\* the keyword arguments of IPOStock(...), in the order they are evaluated
FieldOrder ==
    <<"name", "listing_date", "ipo_price", "price_band_min", "price_band_max",
      "mandatory_holding_pct", "available_float_pct", "sector",
      "sector_avg_return_pct", "expected_return_pct">>

Convert(field, raw) ==
    CASE field \in {"name", "sector"} -> Lookup(field, raw)
      [] field = "listing_date" -> ToDate(field, raw)
      [] field \in {"ipo_price", "price_band_min", "price_band_max"} -> ToInt(field, raw)
      [] OTHER -> ToFloat(field, raw)

\* the fields whose conversion raised, by their place in FieldOrder
Failing(c) == {n \in 1..Len(FieldOrder) : ~c[FieldOrder[n]].ok}

First(failing) == CHOOSE n \in failing : \A m \in failing : n <= m

\* IPOStock(...) from the converted fields c: the first conversion that
\* raises ends the construction
BuildStock(c) ==
    IF Failing(c) # {}
    THEN [ok |-> FALSE, stocks |-> <<>>, error |-> c[FieldOrder[First(Failing(c))]].error]
    ELSE [ok |-> TRUE,
          stocks |-> <<IPOStock(c.name.s, c.listing_date.s, c.ipo_price.v,
                                c.price_band_min.v, c.price_band_max.v,
                                c.mandatory_holding_pct.v, c.available_float_pct.v,
                                c.sector.s, c.sector_avg_return_pct.v,
                                c.expected_return_pct.v)>>,
          error |-> <<>>]

ParseStock(stock_data) ==
    BuildStock([f \in DOMAIN stock_data |-> Convert(f, stock_data[f])])

NoStocks == [ok |-> TRUE, stocks |-> <<>>, error |-> <<>>]

\* stocks.append(stock), unless a later record raised
Appended(head, rest) ==
    IF ~rest.ok THEN rest
    ELSE [ok |-> TRUE, stocks |-> head.stocks \o rest.stocks, error |-> <<>>]

\* a loop that drops the records that do not parse
RECURSIVE ParseStocks_skipMalformed(_)
ParseStocks_skipMalformed(stocks_data) ==
    IF stocks_data = <<>> THEN NoStocks
    ELSE Appended(ParseStock(Head(stocks_data)),
                  ParseStocks_skipMalformed(Tail(stocks_data)))

RECURSIVE ParseStocks(_)

\* the loop after its first record: a record that raises ends it
ParseRest(head, rest_data) ==
    IF ~head.ok THEN head ELSE Appended(head, ParseStocks(rest_data))

\* the loop over stocks_data
ParseStocks(stocks_data) ==
    IF stocks_data = <<>> THEN NoStocks
    ELSE ParseRest(ParseStock(Head(stocks_data)), Tail(stocks_data))

create_sample_ipo_data ==
    <<IPOStock("TechInnovation", "2026-01-15", 25000, 23000, 27000,
               Pct(15, 50), Pct(28, 30), "semiconductor", Pct(12, 80), Pct(18, 50)),
      IPOStock("BioHealthcare", "2026-01-22", 18000, 15000, 20000,
               Pct(22, 0), Pct(18, 50), "bio", Pct(15, 20), Pct(25, 0)),
      IPOStock("GreenEnergySolution", "2026-02-05", 32000, 28000, 32000,
               Pct(8, 50), Pct(42, 0), "renewables", Pct(6, 50), Pct(8, 0)),
      IPOStock("AIRobotics", "2026-02-12", 45000, 40000, 50000,
               Pct(18, 0), Pct(25, 0), "ai_robot", Pct(3, 20), Pct(5, 50)),
      IPOStock("SmartMobility", "2026-02-19", 22000, 20000, 24000,
               Pct(12, 50), Pct(32, 0), "ev_mobility", Pct(9, 50), Pct(12, 0))>>

InvalidRequestMessage == "invalid request"
GenericErrorMessage == "analysis failed, check the input data"

ErrorResponse(message) ==
    [status |-> 400, body |-> [success |-> FALSE, error |-> message]]

Call(op, args) == [op |-> op, args |-> args]

\* the 'timing' value of an entry: None unless the status is SUITABLE
TimingJson(t) ==
    <<[safe_period |-> t.safe_period,
       dangerous_period |-> t.dangerous_period,
       reason |-> t.reason]>>

TimingFor(stock, status) ==
    IF status = SUITABLE THEN TimingJson(get_sell_timing(stock)) ELSE <<>>

\* one element of all_evaluations, from the stock and its evaluation e
Entry(stock, e) ==
    [name |-> stock.name,
     listing_date |-> <<"%Y/%m/%d", stock.listing_date>>,
     ipo_price |-> stock.ipo_price,
     price_band |-> <<stock.price_band_min, stock.price_band_max>>,
     expected_return |-> stock.expected_return_pct,
     sector |-> stock.sector,
     status |-> e.status,
     reasons |-> e.reasons,
     warnings |-> e.warnings,
     timing |-> TimingFor(stock, e.status)]

\* the loop `for stock in stocks` that fills all_evaluations
AllEvaluations(list) ==
    [n \in 1..Len(list) |-> Entry(list[n], evaluate_suitability(list[n]))]

\* the engine calls of one round of that loop
EntryCalls(stock, status) ==
    IF status = SUITABLE
    THEN <<Call("evaluate_suitability", <<stock>>), Call("get_sell_timing", <<stock>>)>>
    ELSE <<Call("evaluate_suitability", <<stock>>)>>

RECURSIVE LoopCalls(_)
LoopCalls(list) ==
    IF list = <<>> THEN <<>>
    ELSE EntryCalls(Head(list), evaluate_suitability(Head(list)).status)
         \o LoopCalls(Tail(list))

\* the engine calls of the handler: the constructor, select_suitable_stocks
\* with its own evaluations, then the loop
EngineCalls(list) ==
    <<Call("IPOAnalyzer", list), Call("select_suitable_stocks", <<>>)>>
    \o [n \in 1..Len(list) |-> Call("evaluate_suitability", <<list[n]>>)]
    \o LoopCalls(list)

IsSuitable(e) == e.status = SUITABLE
IsUnsuitable(e) == e.status = UNSUITABLE

\* the jsonify of the result; suitable_stocks is what select_suitable_stocks
\* returned, which the handler keeps in a local it does not read again
SuccessResponse(suitable_stocks, all_evaluations) ==
    [status |-> 200,
     body |-> [success |-> TRUE,
               suitable_count |-> Len(SelectSeq(all_evaluations, IsSuitable)),
               total_count |-> Len(all_evaluations),
               suitable_stocks |-> SelectSeq(all_evaluations, IsSuitable),
               unsuitable_stocks |-> SelectSeq(all_evaluations, IsUnsuitable)]]

\* from `analyzer = IPOAnalyzer(stocks)` to the return
RunAnalysis(list) ==
    [response |-> SuccessResponse(select_suitable_stocks(list), AllEvaluations(list)),
     calls |-> EngineCalls(list),
     logged |-> <<>>]

\* the except branch: the exception is logged, the caller gets the fixed message
Failed(error) ==
    [response |-> ErrorResponse(GenericErrorMessage),
     calls |-> <<>>,
     logged |-> <<<<"Analysis error", error>>>>]

\* after the try block has the stocks, or the exception raised on the way
Analysed(parsed) ==
    IF ~parsed.ok THEN Failed(parsed.error) ELSE RunAnalysis(parsed.stocks)

\* the handler of POST /api/analyze
analyze(req) ==
    IF ~req.is_json
    THEN [response |-> ErrorResponse(InvalidRequestMessage), calls |-> <<>>, logged |-> <<>>]
    ELSE IF req.use_sample \in {"true", "absent"}
    THEN Analysed([ok |-> TRUE, stocks |-> create_sample_ipo_data, error |-> <<>>])
    ELSE Analysed(ParseStocks(req.stocks))

(***************************************************************************)
(* The requests checked                                                    *)
(***************************************************************************)

MaxRecords == 2

\* the JSON object /api/sample-data would give for a stock: numbers as numbers
RawOf(stock) ==
    [name |-> Text(stock.name),
     listing_date |-> DateStr(stock.listing_date),
     ipo_price |-> Num(100 * stock.ipo_price),
     price_band_min |-> Num(100 * stock.price_band_min),
     price_band_max |-> Num(100 * stock.price_band_max),
     mandatory_holding_pct |-> Num(stock.mandatory_holding_pct),
     available_float_pct |-> Num(stock.available_float_pct),
     sector |-> Text(stock.sector),
     sector_avg_return_pct |-> Num(stock.sector_avg_return_pct),
     expected_return_pct |-> Num(stock.expected_return_pct)]

\* the records a caller may send for a stock: two well-formed ones (plain,
\* and with numbers as strings and a price with a fraction), then malformed ones
RawVariants(stock) ==
    LET raw == RawOf(stock)
    IN  {raw,
         [raw EXCEPT !.ipo_price = Num(100 * stock.ipo_price + 50),
                     !.price_band_min = IntStr(stock.price_band_min),
                     !.mandatory_holding_pct = DecStr(stock.mandatory_holding_pct)],
         [raw EXCEPT !.name = Absent],
         [raw EXCEPT !.listing_date = Text("22/01/2026")],
         [raw EXCEPT !.ipo_price = Text("abc")],
         [raw EXCEPT !.price_band_max = DecStr(100 * stock.price_band_max + 50)],
         [raw EXCEPT !.mandatory_holding_pct = Null],
         [raw EXCEPT !.sector_avg_return_pct = Text("high")],
         [raw EXCEPT !.expected_return_pct = Absent],
         [raw EXCEPT !.listing_date = Absent, !.ipo_price = Text("abc")]}

WebStocks == {s \in ListCandidates : s.name \in {"A", "C", "D"}}

RawRecords == UNION {RawVariants(s) : s \in WebStocks}

\* a body that is not JSON carries no fields
Requests ==
    {[is_json |-> TRUE, use_sample |-> u, stocks |-> l] :
        u \in {"true", "false", "absent"}, l \in ListsUpTo(RawRecords, MaxRecords)}
    \cup {[is_json |-> FALSE, use_sample |-> "absent", stocks |-> <<>>]}

InitWeb ==
    /\ stocks = <<>>
    /\ evaluation = <<>>
    /\ timings = <<>>
    /\ selected = <<>>
    /\ request \in {<<r>> : r \in Requests}
    /\ response = <<>>
    /\ engine_calls = <<>>
    /\ logged = <<>>
    /\ report = <<>>

\* the handler runs on the request in flight
Analyze ==
    /\ request # <<>>
    /\ response = <<>>
    /\ \E r \in {analyze(request[1])} :
           /\ response' = <<r.response>>
           /\ engine_calls' = r.calls
           /\ logged' = r.logged
    /\ UNCHANGED <<stocks, evaluation, timings, selected, request, report>>

NextWeb == Analyze

SpecWeb == InitWeb /\ [][NextWeb]_vars

(***************************************************************************)
(* Properties of the /api/analyze handler                                  *)
(***************************************************************************)

\* a record with a required field missing, or a date or number that does
\* not parse
Malformed(raw) ==
    \/ \E n \in 1..Len(FieldOrder) : raw[FieldOrder[n]].k = "absent"
    \/ raw.listing_date.k # "datestr"
    \/ \E f \in {"ipo_price", "price_band_min", "price_band_max"} :
           raw[f].k \notin {"number", "intstr"}
    \/ \E f \in {"mandatory_holding_pct", "available_float_pct",
                 "sector_avg_return_pct", "expected_return_pct"} :
           raw[f].k \notin {"number", "intstr", "decstr"}

\* the request asks for the analysis of its own records
CallerSupplied(req) == req.is_json /\ req.use_sample = "false"

\* C8: when one of the caller-supplied records is malformed, the engine is
\* not reached (no IPOAnalyzer, no evaluate_suitability) and the response is
\* HTTP 400, success = false, with the fixed generic message and nothing else.
C8_MalformedRejectedBeforeEngine ==
    (/\ response # <<>>
     /\ CallerSupplied(request[1])
     /\ \E n \in 1..Len(request[1].stocks) : Malformed(request[1].stocks[n]))
        => /\ response[1].status = 400
           /\ DOMAIN response[1].body = {"success", "error"}
           /\ response[1].body.success = FALSE
           /\ response[1].body.error = GenericErrorMessage
           /\ engine_calls = <<>>

\* a well-formed record followed by a malformed one: rejected, and the
\* well-formed record was not evaluated either
C8_Witness ==
    /\ response # <<>>
    /\ CallerSupplied(request[1])
    /\ Len(request[1].stocks) = 2
    /\ ~Malformed(request[1].stocks[1])
    /\ Malformed(request[1].stocks[2])
    /\ response[1].status = 400
    /\ engine_calls = <<>>
    /\ logged # <<>>

(***************************************************************************)
(* generate_report                                                         *)
(***************************************************************************)

\* section 1: one block per selected stock, numbered from 1
SelectionBlock(idx, stock) ==
    [idx |-> idx, name |-> stock.name,
     listing_date |-> <<"%Y/%m/%d", stock.listing_date>>,
     ipo_price |-> stock.ipo_price,
     price_band |-> <<stock.price_band_min, stock.price_band_max>>,
     expected_return |-> stock.expected_return_pct,
     sector |-> stock.sector]

\* section 2: the verdict lines of one stock
Verdict(e) ==
    [name |-> e.stock.name, status |-> e.status,
     reasons |-> e.reasons, warnings |-> e.warnings]

TimedStocks_all(list, suitable_stocks) == list

\* the stocks the timing loop of section 3 runs over: `for stock in suitable_stocks`
TimedStocks(list, suitable_stocks) == suitable_stocks

\* section 3: the SellTiming of each stock of the timing loop
ReportTimings(timed) == [n \in 1..Len(timed) |-> get_sell_timing(timed[n])]

\* the engine calls of generate_report: select_suitable_stocks with its
\* evaluations, the evaluations of section 2, the timings of section 3
ReportCalls(list, timed) ==
    <<Call("select_suitable_stocks", <<>>)>>
    \o [n \in 1..Len(list) |-> Call("evaluate_suitability", <<list[n]>>)]
    \o [n \in 1..Len(list) |-> Call("evaluate_suitability", <<list[n]>>)]
    \o [n \in 1..Len(timed) |-> Call("get_sell_timing", <<timed[n]>>)]

\* the three sections of the report, from the list and the selected stocks
ReportOf(list, suitable_stocks) ==
    [selection |-> [n \in 1..Len(suitable_stocks) |-> SelectionBlock(n, suitable_stocks[n])],
     verdicts |-> [n \in 1..Len(list) |-> Verdict(evaluate_suitability(list[n]))],
     timings |-> ReportTimings(TimedStocks(list, suitable_stocks)),
     calls |-> ReportCalls(list, TimedStocks(list, suitable_stocks))]

generate_report(list) == ReportOf(list, select_suitable_stocks(list))

\* analyzer.generate_report()
GenerateReport ==
    /\ report' = <<generate_report(stocks)>>
    /\ UNCHANGED <<stocks, evaluation, timings, selected, request, response,
                   engine_calls, logged>>

\* the two runs that deliver results: the report of an analyzer, and the
\* handler on a request
InitRuns == Init \/ InitWeb

NextRuns == GenerateReport \/ Analyze

SpecRuns == InitRuns /\ [][NextRuns]_vars

(***************************************************************************)
(* Properties of the runs: generate_report and /api/analyze                *)
(***************************************************************************)

\* how often get_sell_timing was called on stock s in a sequence of calls
TimingCalls(calls, s) ==
    Cardinality({k \in 1..Len(calls) :
                    calls[k].op = "get_sell_timing" /\ calls[k].args = <<s>>})

\* in a run on `list`, get_sell_timing was called once per occurrence of each
\* SUITABLE stock and never on another one
TimedOnlySuitable(calls, list) ==
    /\ \A k \in 1..Len(calls) :
           calls[k].op = "get_sell_timing" =>
               /\ calls[k].args[1] \in Elements(list)
               /\ ~AnyRuleViolated(calls[k].args[1])
    /\ \A s \in Elements(list) :
           TimingCalls(calls, s) =
               IF AnyRuleViolated(s) THEN 0 ELSE Occurrences(list, s)

NumberSuitable(list) == Cardinality({k \in 1..Len(list) : ~AnyRuleViolated(list[k])})

\* the report has one timing entry per SUITABLE stock and none besides
ReportTimingIffSuitable(r, list) ==
    /\ Len(r.timings) = NumberSuitable(list)
    /\ \A s \in Elements(list) :
           Cardinality({k \in 1..Len(r.timings) : r.timings[k].stock_name = s.name})
               = Cardinality({k \in 1..Len(list) :
                                 list[k].name = s.name /\ ~AnyRuleViolated(list[k])})

\* in the response every Suitable entry has a timing and no Unsuitable one has
ResponseTimingIffSuitable(body, list) ==
    /\ Len(body.suitable_stocks) = NumberSuitable(list)
    /\ Len(body.suitable_stocks) + Len(body.unsuitable_stocks) = Len(list)
    /\ \A k \in 1..Len(body.suitable_stocks) :
           /\ body.suitable_stocks[k].status = SUITABLE
           /\ body.suitable_stocks[k].timing # <<>>
    /\ \A k \in 1..Len(body.unsuitable_stocks) :
           /\ body.unsuitable_stocks[k].status = UNSUITABLE
           /\ body.unsuitable_stocks[k].timing = <<>>

\* C11: in every run of generate_report and of the /api/analyze handler,
\* get_sell_timing is called only for the candidates evaluated SUITABLE, and a
\* timing entry exists for a candidate iff its status is SUITABLE (in the
\* response: timing is null for every Unsuitable entry, non-null for every
\* Suitable one).
C11_TimingIffSuitable ==
    /\ report # <<>> =>
           /\ TimedOnlySuitable(report[1].calls, stocks)
           /\ ReportTimingIffSuitable(report[1], stocks)
    /\ (response # <<>> /\ response[1].status = 200) =>
           /\ engine_calls[1].op = "IPOAnalyzer"
           /\ TimedOnlySuitable(engine_calls, engine_calls[1].args)
           /\ ResponseTimingIffSuitable(response[1].body, engine_calls[1].args)

\* a report on three stocks, the second one unsuitable: two timing entries,
\* for the first and the third
C11_Witness ==
    /\ report # <<>>
    /\ Len(stocks) = 3
    /\ ~AnyRuleViolated(stocks[1])
    /\ AnyRuleViolated(stocks[2])
    /\ ~AnyRuleViolated(stocks[3])
    /\ stocks[1].name # stocks[3].name
    /\ Len(report[1].timings) = 2
    /\ TimingCalls(report[1].calls, stocks[2]) = 0
    /\ TimingCalls(report[1].calls, stocks[1]) = 1

\* a response with a Suitable entry that has a timing and an Unsuitable
\* entry whose timing is null
C11_ResponseReached ==
    /\ response # <<>>
    /\ response[1].status = 200
    /\ request[1].use_sample = "false"
    /\ Len(response[1].body.suitable_stocks) = 1
    /\ Len(response[1].body.unsuitable_stocks) = 1
    /\ response[1].body.suitable_stocks[1].timing # <<>>
    /\ response[1].body.unsuitable_stocks[1].timing = <<>>

\* the names of a sequence of stocks or of response entries, in order
Names(list) == [k \in 1..Len(list) |-> list[k].name]

\* C12: the suitable_stocks array of a successful response lists the
\* Suitable candidates in the order select_suitable_stocks returns them,
\* expected_return_pct descending.
C12_ResponseInSelectorOrder ==
    (response # <<>> /\ response[1].status = 200) =>
        /\ Names(response[1].body.suitable_stocks)
               = Names(select_suitable_stocks(engine_calls[1].args))
        /\ \A k \in 1..(Len(response[1].body.suitable_stocks) - 1) :
               response[1].body.suitable_stocks[k].expected_return
                   >= response[1].body.suitable_stocks[k + 1].expected_return

====
